---- MODULE Spec2Model ----
(***************************************************************************)
(* Model of the backtesting engine of src/backtester/engine.py: the period *)
(* loop of Engine.run with its three steps _close_positions, _place_orders *)
(* and _place_trades, the Trade book and the eligibility gate.             *)
(*                                                                         *)
(* Floating-point values are modelled as exact rationals <<n, d>> (d > 0,  *)
(* lowest terms) extended with the IEEE special values NaN = <<0, 0>>,     *)
(* +inf = <<1, 0>> and -inf = <<-1, 0>>.  Rounding is not modelled.        *)
(***************************************************************************)
EXTENDS Integers, Sequences, FiniteSets, TLC

\* ------------------------------------------------------------------------
\* Bounds of the model
\* ------------------------------------------------------------------------
\* len(timeseries): number of periods of the price series
NumPeriods == 3
\* len(self.tickers): number of instruments of the universe
NumTickers == 2

Periods == 0 .. (NumPeriods - 1)
Tickers == 1 .. NumTickers

\* ------------------------------------------------------------------------
\* Floating-point values
\* ------------------------------------------------------------------------
NaN == <<0, 0>>
PInf == <<1, 0>>
NInf == <<-1, 0>>
Zero == <<0, 1>>
One == <<1, 1>>
Two == <<2, 1>>
\* a non-numeric element (e.g. a string) of a strategy's return value
Str == <<0, -1>>

AbsInt(n) == IF n < 0 THEN -n ELSE n
SgnInt(n) == IF n < 0 THEN -1 ELSE IF n > 0 THEN 1 ELSE 0

RECURSIVE GCD(_, _)
GCD(a, b) == IF b = 0 THEN a ELSE GCD(b, a % b)

\* the rational n/d (d > 0) in lowest terms
Norm(n, d) == LET g == GCD(AbsInt(n), d) IN <<n \div g, d \div g>>

IsNaN(x) == x = NaN
IsFinite(x) == x[2] > 0

Neg(x) == <<-x[1], x[2]>>
Abs(x) == <<AbsInt(x[1]), x[2]>>

Add(x, y) ==
    IF IsNaN(x) \/ IsNaN(y) THEN NaN
    ELSE IF x[2] = 0 /\ y[2] = 0 THEN (IF x = y THEN x ELSE NaN)
    ELSE IF x[2] = 0 THEN x
    ELSE IF y[2] = 0 THEN y
    ELSE LET g == GCD(x[2], y[2])
             L == (x[2] \div g) * y[2]
         IN  Norm(x[1] * (L \div x[2]) + y[1] * (L \div y[2]), L)

Sub(x, y) == Add(x, Neg(y))

Mul(x, y) ==
    IF IsNaN(x) \/ IsNaN(y) THEN NaN
    ELSE IF x[2] = 0 \/ y[2] = 0
         THEN (IF x[1] = 0 \/ y[1] = 0 THEN NaN
               ELSE <<SgnInt(x[1]) * SgnInt(y[1]), 0>>)
    ELSE LET g1 == GCD(AbsInt(x[1]), y[2])
             g2 == GCD(AbsInt(y[1]), x[2])
         IN  IF x[1] = 0 \/ y[1] = 0 THEN Zero
             ELSE <<(x[1] \div g1) * (y[1] \div g2),
                    (x[2] \div g2) * (y[2] \div g1)>>

Div(x, y) ==
    IF IsNaN(x) \/ IsNaN(y) THEN NaN
    ELSE IF y[2] = 0 THEN (IF x[2] = 0 THEN NaN ELSE Zero)
    ELSE IF y[1] = 0 THEN (IF x[1] = 0 THEN NaN ELSE <<SgnInt(x[1]), 0>>)
    ELSE IF x[2] = 0 THEN <<SgnInt(x[1]) * SgnInt(y[1]), 0>>
    ELSE Mul(x, <<SgnInt(y[1]) * y[2], AbsInt(y[1])>>)

\* x <= y and x < y as IEEE comparisons: false when either side is NaN
Leq(x, y) ==
    IF IsNaN(x) \/ IsNaN(y) THEN FALSE
    ELSE IF x[2] = 0 THEN (x = NInf \/ y = PInf)
    ELSE IF y[2] = 0 THEN y = PInf
    ELSE LET g == GCD(x[2], y[2])
             L == (x[2] \div g) * y[2]
         IN  x[1] * (L \div x[2]) <= y[1] * (L \div y[2])

Lt(x, y) == Leq(x, y) /\ x # y

\* sum of f[k] over k in lo..hi
RECURSIVE SumRange(_, _, _)
SumRange(f, lo, hi) == IF lo > hi THEN Zero ELSE Add(f[lo], SumRange(f, lo + 1, hi))

\* np.min and np.max of a non-empty vector without NaN
RECURSIVE MinRange(_, _, _)
MinRange(f, lo, hi) ==
    IF lo = hi THEN f[lo]
    ELSE LET m == MinRange(f, lo + 1, hi) IN IF Leq(f[lo], m) THEN f[lo] ELSE m

RECURSIVE MaxRange(_, _, _)
MaxRange(f, lo, hi) ==
    IF lo = hi THEN f[lo]
    ELSE LET m == MaxRange(f, lo + 1, hi) IN IF Leq(m, f[lo]) THEN f[lo] ELSE m

\* ------------------------------------------------------------------------
\* Inputs
\* ------------------------------------------------------------------------
\* prices of the series (strictly positive): a position entered at the open
\* may close at a third, a half, one and a half or three times its entry
\* price, and the next open is one, two, a third or two thirds of the close
OpenPrices == {One, Two}
ClosePrices == {One, <<3, 1>>}
\* initial_amount of Engine.__init__ (positive)
InitialAmounts == {<<4, 1>>, <<1, 1000000>>}
\* elements of an alpha vector a strategy may return
AlphaVals == {NaN, PInf, <<-1, 1>>, Zero, One, Two}

\* The timeseries: the "Open" and "Adj Close" columns.  Row 0 of "Open" is
\* never read by the engine and is held at One.
Timeseries ==
    {[Open |-> o, AdjClose |-> c] :
        o \in {f \in [Periods -> [Tickers -> OpenPrices]] : \A t \in Tickers : f[0][t] = One},
        c \in [Periods -> [Tickers -> ClosePrices]]}

\* What the user strategy may return: a non-iterable scalar, a float array of
\* the right length, float arrays of a wrong length, and arrays of
\* non-numeric elements.
StrategyReturns ==
    {[iterable |-> FALSE, v |-> <<One>>]}
    \cup {[iterable |-> TRUE, v |-> a] : a \in [Tickers -> AlphaVals]}
    \cup {[iterable |-> TRUE, v |-> [t \in 1 .. n |-> One]] : n \in {NumTickers - 1, NumTickers + 1}}
    \cup {[iterable |-> TRUE, v |-> [t \in 1 .. n |-> Str]] : n \in {NumTickers - 1, NumTickers}}

\* ------------------------------------------------------------------------
\* State
\* ------------------------------------------------------------------------
VARIABLES
    data,       \* self.data: the timeseries
    cash,       \* self.cash: one balance per period
    pos_id,     \* self.pos_id: trade counter
    history,    \* self.history: the trade history table
    orders,     \* self.orders: number of shares to trade, per ticker
    trades,     \* self.trades: the Trade book (id, price, shares per ticker)
    i,          \* loop index of Engine.run
    pc,         \* position in the body of the loop of Engine.run
    i_ticker,   \* loop index of the loop of _place_trades
    exc,        \* the exception run() ended with, or "none"
    alphas,     \* value returned by the strategy call of the current period
    seen,       \* periods of the slice self.data.loc[:i, :] given to the strategy
    completed,  \* cash, trades and history when the last period completed
    rejected    \* tickers whose order the gate rejected in the current period

vars == <<data, cash, pos_id, history, orders, trades, i, pc, i_ticker, exc,
          alphas, seen, completed, rejected>>

\* no strategy call made yet in this period
NoReturn == [iterable |-> FALSE, v |-> <<>>]

\* ------------------------------------------------------------------------
\* class Trade
\* ------------------------------------------------------------------------
\* threshold of Trade.open_trade: 1e-6
OpenTradeEps == <<1, 1000000>>

\* Trade.__init__ and Trade.clear: all entries zero
clear == [id |-> [t \in Tickers |-> 0],
          price |-> [t \in Tickers |-> Zero],
          shares |-> [t \in Tickers |-> Zero]]

\* Trade.value
value(tr, t) == Mul(tr.price[t], tr.shares[t])

\* Trade.open_trade
open_trade(tr, t) == Lt(OpenTradeEps, Abs(tr.shares[t]))

\* eligible without abs(): the signed notional compared with the cash
eligible_no_abs(shares, price, c) == Leq(Mul(shares, price), c)

\* eligible with a strict comparison
eligible_strict(shares, price, c) == Lt(Abs(Mul(shares, price)), c)

\* eligible(shares, price, cash)
eligible(shares, price, c) == Leq(Abs(Mul(shares, price)), c)

\* ------------------------------------------------------------------------
\* Engine.__init__
\* ------------------------------------------------------------------------
Init ==
    /\ data \in Timeseries
    /\ \E initial_amount \in InitialAmounts :
          cash = [p \in Periods |-> IF p = 0 THEN initial_amount ELSE Zero]
    /\ pos_id = 0
    /\ history = <<>>
    /\ orders = [t \in Tickers |-> Zero]
    /\ trades = clear
    /\ i = 0
    /\ pc = "close"
    /\ i_ticker = 0
    /\ exc = "none"
    /\ alphas = NoReturn
    /\ seen = {}
    /\ completed = [cash |-> cash, trades |-> trades, history |-> history]
    /\ rejected = {}

\* ------------------------------------------------------------------------
\* Engine._close_positions(i)
\* ------------------------------------------------------------------------
\* CloseCredit with the value of the trade credited without abs()
CloseCredit_signed(tr, close, t) ==
    IF open_trade(tr, t)
    THEN LET pnl == Mul(Sub(close, tr.price[t]), tr.shares[t])
         IN  Add(value(tr, t), pnl)
    ELSE Zero

\* amount the loop body adds to cash[i] for ticker t
CloseCredit(tr, close, t) ==
    IF open_trade(tr, t)
    THEN LET pnl == Mul(Sub(close, tr.price[t]), tr.shares[t])
         IN  Add(Abs(value(tr, t)), pnl)
    ELSE Zero

\* cash[i] after the loop over tickers t..NumTickers, starting from c
RECURSIVE CloseLoop(_, _, _, _)
CloseLoop(c, tr, closes, t) ==
    IF t > NumTickers THEN c
    ELSE CloseLoop(Add(c, CloseCredit(tr, closes[t], t)), tr, closes, t + 1)

\* _close_positions without the closing self.trades.clear()
_close_positions_no_clear ==
    /\ pc = "close"
    /\ cash' = [cash EXCEPT ![i] = CloseLoop(cash[i], trades, data.AdjClose[i], 1)]
    /\ alphas' = NoReturn
    /\ rejected' = {}
    /\ pc' = "orders"
    /\ UNCHANGED <<data, pos_id, history, orders, trades, i, i_ticker, exc, seen, completed>>

_close_positions ==
    /\ pc = "close"
    /\ cash' = [cash EXCEPT ![i] = CloseLoop(cash[i], trades, data.AdjClose[i], 1)]
    /\ trades' = clear
    /\ alphas' = NoReturn
    /\ rejected' = {}
    /\ pc' = "orders"
    /\ UNCHANGED <<data, pos_id, history, orders, i, i_ticker, exc, seen, completed>>

\* ------------------------------------------------------------------------
\* Engine._place_orders(i)
\* ------------------------------------------------------------------------
\* alphas[np.isnan(alphas)] = 0.0
FillNaN(a) == [t \in Tickers |-> IF IsNaN(a[t]) THEN Zero ELSE a[t]]

\* alphas = 2 * (alphas - np.min(alphas)) / (np.max(alphas) - np.min(alphas)) - 1
Rescale(a) ==
    LET mn == MinRange(a, 1, NumTickers)
        mx == MaxRange(a, 1, NumTickers)
    IN  [t \in Tickers |-> Sub(Div(Mul(Two, Sub(a[t], mn)), Sub(mx, mn)), One)]

\* nshares: the order vector computed from a valid alpha vector a, the
\* available cash and the closing prices of the day
Nshares(a, available_cash, closes) ==
    LET scaled == Rescale(FillNaN(a))
        total == SumRange([t \in Tickers |-> Abs(scaled[t])], 1, NumTickers)
    IN  [t \in Tickers |-> Div(Mul(Div(scaled[t], total), available_cash), closes[t])]

\* not isinstance(alphas, Iterable) or len(alphas) != len(self.tickers)
FailsChecks(r) == ~r.iterable \/ Len(r.v) # NumTickers

\* np.isnan is not defined on a non-numeric array
IsNumeric(r) == \A t \in 1 .. Len(r.v) : r.v[t] # Str

_place_orders ==
    /\ pc = "orders"
    /\ \E r \in StrategyReturns :
          /\ alphas' = r
          /\ seen' = 0 .. i
          /\ IF FailsChecks(r)
             THEN /\ exc' = "StrategyException"
                  /\ pc' = "raised"
                  /\ UNCHANGED orders
             ELSE IF ~IsNumeric(r)
             THEN /\ exc' = "TypeError"
                  /\ pc' = "raised"
                  /\ UNCHANGED orders
             ELSE /\ orders' = Nshares(r.v, cash[i], data.AdjClose[i])
                  /\ pc' = "trades"
                  /\ UNCHANGED exc
    /\ UNCHANGED <<data, cash, pos_id, history, trades, i, i_ticker, completed, rejected>>

\* ------------------------------------------------------------------------
\* Engine._place_trades(i)
\* ------------------------------------------------------------------------
\* the end of the body of the loop of Engine.run: the period is complete
EndPeriod ==
    /\ i' = i + 1
    /\ pc' = IF i + 1 = NumPeriods THEN "done" ELSE "close"
    /\ completed' = [cash |-> cash', trades |-> trades', history |-> history']

\* _place_trades without the return on the last period
_place_trades_no_return ==
    /\ pc = "trades"
    /\ UNCHANGED <<data, pos_id, history, orders, trades, exc, alphas, seen, rejected>>
    /\ cash' = [cash EXCEPT ![i + 1] = cash[i]]
    /\ i_ticker' = 1
    /\ pc' = "trade_loop"
    /\ UNCHANGED <<i, completed>>

\* the head of _place_trades: return on the last period, else carry the cash
\* over to the next morning and enter the loop over the orders
_place_trades ==
    /\ pc = "trades"
    /\ UNCHANGED <<data, pos_id, history, orders, trades, exc, alphas, seen, rejected>>
    /\ IF NumPeriods = i + 1
       THEN /\ UNCHANGED <<cash, i_ticker>>
            /\ EndPeriod
       ELSE /\ cash' = [cash EXCEPT ![i + 1] = cash[i]]
            /\ i_ticker' = 1
            /\ pc' = "trade_loop"
            /\ UNCHANGED <<i, completed>>

\* _place_trades_loop executing at the open price of day i instead of i+1
_place_trades_loop_same_day ==
    /\ pc = "trade_loop"
    /\ LET order == orders[i_ticker]
           open_price == data.Open[i][i_ticker]
       IN  IF eligible(order, open_price, cash[i + 1])
           THEN /\ trades' = [trades EXCEPT !.id[i_ticker] = pos_id,
                                            !.price[i_ticker] = open_price,
                                            !.shares[i_ticker] = order]
                /\ cash' = [cash EXCEPT ![i + 1] = Sub(cash[i + 1], Abs(value(trades', i_ticker)))]
                /\ pos_id' = pos_id + 1
                /\ UNCHANGED rejected
           ELSE /\ rejected' = rejected \cup {i_ticker}
                /\ UNCHANGED <<trades, cash, pos_id>>
    /\ UNCHANGED <<data, history, orders, exc, alphas, seen>>
    /\ IF i_ticker = NumTickers
       THEN /\ UNCHANGED i_ticker
            /\ EndPeriod
       ELSE /\ i_ticker' = i_ticker + 1
            /\ UNCHANGED <<i, pc, completed>>

\* one iteration of the loop of _place_trades; the last one ends the period
_place_trades_loop ==
    /\ pc = "trade_loop"
    /\ LET order == orders[i_ticker]
           open_price == data.Open[i + 1][i_ticker]
       IN  IF eligible(order, open_price, cash[i + 1])
           THEN /\ trades' = [trades EXCEPT !.id[i_ticker] = pos_id,
                                            !.price[i_ticker] = open_price,
                                            !.shares[i_ticker] = order]
                /\ cash' = [cash EXCEPT ![i + 1] = Sub(cash[i + 1], Abs(value(trades', i_ticker)))]
                /\ pos_id' = pos_id + 1
                /\ UNCHANGED rejected
           ELSE /\ rejected' = rejected \cup {i_ticker}
                /\ UNCHANGED <<trades, cash, pos_id>>
    /\ UNCHANGED <<data, history, orders, exc, alphas, seen>>
    /\ IF i_ticker = NumTickers
       THEN /\ UNCHANGED i_ticker
            /\ EndPeriod
       ELSE /\ i_ticker' = i_ticker + 1
            /\ UNCHANGED <<i, pc, completed>>

\* The loop of _place_trades run over the tickers in the order perm[1],
\* perm[2], ... from position k on, with balance c of cash[i+1] and the set
\* opened of tickers whose order has been admitted: the final balance and set.
RECURSIVE OpenInOrder(_, _, _, _, _, _)
OpenInOrder(perm, k, c, opened, ords, opens) ==
    IF k > NumTickers THEN [cash |-> c, opened |-> opened]
    ELSE LET t == perm[k]
         IN  IF eligible(ords[t], opens[t], c)
             THEN OpenInOrder(perm, k + 1, Sub(c, Abs(Mul(opens[t], ords[t]))),
                              opened \cup {t}, ords, opens)
             ELSE OpenInOrder(perm, k + 1, c, opened, ords, opens)

\* ------------------------------------------------------------------------
\* Engine.run
\* ------------------------------------------------------------------------
Next ==
    \/ _close_positions
    \/ _place_orders
    \/ _place_trades
    \/ _place_trades_loop

Spec == Init /\ [][Next]_vars

\* ------------------------------------------------------------------------
\* Properties
\* ------------------------------------------------------------------------
\* a position with a non-zero share count in slot t of book tr
Live(tr, t) == tr.shares[t] # Zero

\* |entry * shares| + (close - entry) * shares for slot t of book tr
Proceeds(tr, closes, t) ==
    Add(Abs(Mul(tr.price[t], tr.shares[t])),
        Mul(Sub(closes[t], tr.price[t]), tr.shares[t]))

\* the sum realized by period i's Close step: the proceeds of the positions
\* that were in the book when period i began and that the book reports open
C1_Realized ==
    SumRange([t \in Tickers |->
                 IF Lt(OpenTradeEps, Abs(completed.trades.shares[t]))
                 THEN Proceeds(completed.trades, data.AdjClose[i], t)
                 ELSE Zero], 1, NumTickers)

\* sum over the instruments of |order * open price of period i+1|
C1_Notional ==
    SumRange([t \in Tickers |-> Abs(Mul(orders[t], data.Open[i + 1][t]))], 1, NumTickers)

C2_Gate ==
    [][pc = "trade_loop" =>
        LET t == i_ticker
            notional == Abs(Mul(orders[t], data.Open[i + 1][t]))
            admit == Leq(notional, cash[i + 1])
        IN  /\ (pos_id' = pos_id + 1) <=> admit
            /\ (pos_id' = pos_id) <=> ~admit
            /\ exc' = "none"
            /\ \A u \in Tickers \ {t} :
                  /\ trades'.id[u] = trades.id[u]
                  /\ trades'.price[u] = trades.price[u]
                  /\ trades'.shares[u] = trades.shares[u]
            /\ admit => /\ trades'.shares[t] = orders[t]
                        /\ trades'.price[t] = data.Open[i + 1][t]
                        /\ cash'[i + 1] = Sub(cash[i + 1], notional)
            /\ ~admit => /\ cash' = cash
                         /\ trades' = trades
                         /\ ~Live(trades', t)]_vars

\* in one period a finite order was rejected and another order was admitted
C2_Witness ==
    /\ pc = "close" /\ exc = "none"
    /\ rejected # {}
    /\ \A t \in rejected : IsFinite(orders[t]) /\ orders[t] # Zero
    /\ \E t \in Tickers \ rejected : Live(trades, t)

\* C3: the Close step credits cash[i] with |entry * shares| + (close - entry)
\* * shares for every position with a non-zero share count, and empties the
\* book.
C3_CloseCreditsEveryPosition ==
    [][pc = "close" =>
        /\ cash'[i] = Add(cash[i],
                          SumRange([t \in Tickers |->
                                       IF Live(trades, t)
                                       THEN Proceeds(trades, data.AdjClose[i], t)
                                       ELSE Zero], 1, NumTickers))
        /\ trades' = clear]_vars

\* a vector of finite numbers
C4_Finite(a) == \A t \in Tickers : IsFinite(a[t])

\* C4: after the Size step, for a finite alpha vector and available cash
\* cash[i] >= 0, sum |order * reference price| <= cash[i], the reference
\* price being the closing price of period i.
C4_OrdersWithinCash ==
    (pc = "trades" /\ C4_Finite(alphas.v) /\ Leq(Zero, cash[i]))
        => Leq(SumRange([t \in Tickers |-> Abs(Mul(orders[t], data.AdjClose[i][t]))],
                        1, NumTickers),
               cash[i])

\* all entries equal once the non-finite entries are replaced by zero
C5_Degenerate(a) ==
    LET z == [t \in Tickers |-> IF IsFinite(a[t]) THEN a[t] ELSE Zero]
    IN  \A s, t \in Tickers : z[s] = z[t]

\* C5: after the Size step on a degenerate alpha vector every order is
\* exactly zero shares.
C5_DegenerateGivesZeroOrders ==
    (pc = "trades" /\ C5_Degenerate(alphas.v))
        => \A t \in Tickers : orders[t] = Zero

\* a strategy return that is not a sequence of NumTickers real numbers
C6_Invalid(r) == ~r.iterable \/ Len(r.v) # NumTickers \/ \E t \in 1 .. Len(r.v) : r.v[t] = Str

\* C6: once the strategy has returned an invalid value the run has halted
\* with StrategyException, the Open step of the period not executed.
C6_InvalidRaisesStrategyException ==
    (alphas # NoReturn /\ C6_Invalid(alphas))
        => (pc = "raised" /\ exc = "StrategyException")

\* C7: when the run has halted with StrategyException, cash, the book and
\* the history are as they were when the previous period completed.
C7_FailedPeriodMutatesNothing ==
    (pc = "raised" /\ exc = "StrategyException")
        => /\ cash = completed.cash
           /\ trades = completed.trades
           /\ history = completed.history

\* C8: in period 0 the strategy is not called and no order is produced, and
\* period 0 completes with no position opened and cash[1] = cash[0].
C8_FirstPeriodSkipsSize ==
    /\ (i = 0 /\ pc \in {"trades", "trade_loop", "raised"})
          => (alphas = NoReturn /\ \A t \in Tickers : orders[t] = Zero)
    /\ (i = 1 /\ pc = "close")
          => (cash[1] = cash[0] /\ trades = clear /\ pos_id = 0)

\* C9: the history holds one record per admitted order.
C9_OneRecordPerTrade == Len(history) = pos_id

\* C10: each slot of the book holds at most the one position opened in the
\* latest Open step: after the Close step the book is empty until the Open
\* step, during the Open step of period i a slot is empty until its order is
\* considered and then holds at most a position entered at the open price of
\* period i+1, and live positions carry distinct identifiers.
C10_OnePositionOnePeriod ==
    /\ pc \in {"orders", "trades", "raised"} => trades = clear
    /\ pc = "trade_loop" =>
          \A t \in Tickers :
             /\ t >= i_ticker => (~Live(trades, t) /\ trades.price[t] = Zero)
             /\ (t < i_ticker /\ Live(trades, t)) => trades.price[t] = data.Open[i + 1][t]
    /\ pc = "close" =>
          \A t \in Tickers :
             Live(trades, t) => (i >= 1 /\ trades.price[t] = data.Open[i][t]
                                  /\ trades.id[t] >= pos_id - NumTickers)
    /\ \A s, t \in Tickers :
          (s # t /\ Live(trades, s) /\ Live(trades, t)) => trades.id[s] # trades.id[t]

\* the positions opened in period 1, after those of period 0 were closed,
\* have been removed by the Close step of period 2
C10_Witness ==
    /\ pc = "orders" /\ i = 2
    /\ pos_id = 2 * NumTickers
    /\ \A t \in Tickers : Live(completed.trades, t)
    /\ trades = clear

C12_OpenOrderIndependent ==
    (pc = "close" /\ i >= 1) =>
        \A perm \in Permutations(Tickers) :
            OpenInOrder(perm, 1, cash[i - 1], {}, orders, data.Open[i])
                = [cash |-> cash[i], opened |-> Tickers \ rejected]

\* C13: after the Size step no instrument with a positive alpha has an order
\* of a negative share count, and none with a negative alpha has an order of
\* a positive share count.
C13_AlphaSignDecidesSide ==
    pc = "trades" =>
        \A t \in Tickers :
            /\ Lt(Zero, alphas.v[t]) => ~Lt(orders[t], Zero)
            /\ Lt(alphas.v[t], Zero) => ~Lt(Zero, orders[t])

\* C14: the run steps through the periods 0 .. NumPeriods-1 in order and is
\* Complete exactly when all are consumed; it halts earlier only on an
\* invalid strategy return and is otherwise at one of the steps of a period
\* of the series, with no exception raised.  The
\* cash trajectory keeps its NumPeriods entries; entry 0 is the starting
\* cash; entry i+1 is unwritten until the carry of period i sets it to
\* cash[i]; the entries of completed periods are not written again; the
\* Open loop runs only when there is a next period, and the last period
\* carries nothing forward and opens nothing.
C14_RunShape ==
    /\ DOMAIN cash = Periods
    /\ i \in 0 .. NumPeriods
    /\ (pc = "done") <=> (i = NumPeriods)
    /\ pc = "raised" => C6_Invalid(alphas)
    /\ pc \notin {"done", "raised"} =>
          /\ pc \in {"close", "orders", "trades", "trade_loop"}
          /\ i \in Periods
          /\ exc = "none"
    /\ pc = "trade_loop" => i_ticker \in Tickers
    /\ cash[0] \in InitialAmounts
    /\ \A p \in Periods :
          /\ p > i + 1 => cash[p] = Zero
          /\ (p = i + 1 /\ pc # "trade_loop") => cash[p] = Zero
          /\ p < i => cash[p] = completed.cash[p]
    /\ pc = "trade_loop" =>
          /\ i + 1 < NumPeriods
          /\ i_ticker = 1 => cash[i + 1] = cash[i]
    /\ pc = "done" => (trades = clear /\ cash = completed.cash)

\* a run of valid strategy returns is Complete after trading in every period
\* but the last
C14_Witness ==
    /\ pc = "done" /\ i = NumPeriods /\ exc = "none"
    /\ pos_id = (NumPeriods - 1) * NumTickers
    /\ cash[NumPeriods - 1] # cash[0]

\* sum of |entry * shares| over the positions of book tr
Locked(tr) ==
    SumRange([t \in Tickers |-> Abs(Mul(tr.price[t], tr.shares[t]))], 1, NumTickers)

\* C16: when the balance carried into cash[i+1] (the balance cash[i] after
\* the Close step) is >= 0, cash[i+1] stays >= 0 through the Open loop, and
\* when the Open step has completed the notional of the positions it opened
\* is at most the balance carried.
C16_OpenNeverOverdraws ==
    /\ (pc = "trade_loop" /\ Leq(Zero, cash[i])) => Leq(Zero, cash[i + 1])
    /\ (pc = "close" /\ i >= 1 /\ Leq(Zero, cash[i - 1])) =>
          /\ Leq(Zero, cash[i])
          /\ Leq(Locked(trades), cash[i - 1])

\* an Open step has completed on a positive balance with a short position
\* opened at an open price other than the closing price used for sizing, and
\* another order rejected
C16_Witness ==
    /\ pc = "close" /\ i >= 1
    /\ Lt(Zero, cash[i - 1])
    /\ rejected # {}
    /\ \E t \in Tickers :
          /\ Lt(trades.shares[t], Zero)
          /\ data.Open[i][t] # data.AdjClose[i - 1][t]

\* C17: after the Close step of every period, cash[i], the available cash of
\* the Size step, is >= 0.
C17_AvailableCashNonNegative ==
    pc = "orders" => Leq(Zero, cash[i])

\* C18: when every instrument's open and closing price of period i are equal,
\* the balance after the Close step of period i equals the balance after the
\* Close step of period i-1.
C18_FlatPriceRoundTrip ==
    (pc = "orders" /\ i >= 1 /\ \A t \in Tickers : data.Open[i][t] = data.AdjClose[i][t])
        => cash[i] = cash[i - 1]

====
